---- MODULE Spec2Model ----
(***************************************************************************)
(* Model of the dc-cron Cloudflare Worker (src/src/worker.ts): the cron    *)
(* entrypoint scheduled(), the job runner runJob(), the Slack alert path   *)
(* and the aggregate failure raised by the background task handed to       *)
(* ctx.waitUntil.                                                          *)
(*                                                                         *)
(* Strings that the code inspects character-wise (URLs, paths, the webhook *)
(* value, response bodies) are sequences of tokens; strings that are only  *)
(* compared for equality (cron expressions, ENABLED, job keys) are TLA+    *)
(* strings.  An optional property that is absent in JavaScript is a field  *)
(* that is absent from the record.                                         *)
(***************************************************************************)
EXTENDS Integers, Sequences, FiniteSets, TLC

VARIABLES
  env,       \* runtime configuration handed to every handler (read-only)
  schedule,  \* the two cron -> jobs tables: [worker |-> ..., web |-> ...]
  cron,      \* cron[t]    : ev.cron of tick t
  pc,        \* pc[t]      : where tick t is
  invs,      \* invs[t]    : the runJob promises of tick t, in allJobs order
  results,   \* results[t] : the array bound by `await Promise.all(allJobs)`
  alerts,    \* alerts[t]  : the postSlack promises of tick t
  thrown,    \* thrown[t]  : the error the tick's background task rejected with
  log,       \* log[t]     : console lines written by tick t
  steps,     \* steps[t]   : what tick t has done so far, in program order
  applied    \* the last direct application of a helper: its input and output

vars == <<env, schedule, cron, pc, invs, results, alerts, thrown, log, steps, applied>>

Has(r, f) == f \in DOMAIN r

----------------------------------------------------------------------------
(* Static tables *)

Platform == {"worker", "web"}

JobKey == {"createDailyChronicles", "processIncompleteChronicles",
           "syncChroniclesUpdates", "syncUserStakes", "provideLiquidity",
           "shieldClean", "recordDacPerformance", "healthz"}

InternalPath(name) == <<"/", "api", "/", "internal", "/", name>>

JOB_ENDPOINT ==
  [j \in JobKey |->
     CASE j = "createDailyChronicles" ->
            [method |-> "POST", path |-> InternalPath("create-daily-chronicles")]
       [] j = "processIncompleteChronicles" ->
            [method |-> "POST", path |-> InternalPath("process-incomplete-chronicles")]
       [] j = "syncChroniclesUpdates" ->
            [method |-> "POST", path |-> InternalPath("sync-chronicles-updates")]
       [] j = "syncUserStakes" ->
            [method |-> "POST", path |-> InternalPath("sync-user-stakes")]
       [] j = "provideLiquidity" ->
            [method |-> "POST", path |-> InternalPath("provide-liquidity")]
       [] j = "shieldClean" ->
            [method |-> "POST", path |-> InternalPath("shield-clean")]
       [] j = "recordDacPerformance" ->
            [method |-> "POST", path |-> InternalPath("record-dac-performance")]
       [] j = "healthz" ->
            [method |-> "GET", path |-> <<"/", "api", "/", "healthz">>]]

WORKER_CRON_TO_JOBS ==
  ( "0,30 12-23 * * *" :> <<"createDailyChronicles">> ) @@
  ( "15 13-15 * * *"   :> <<"processIncompleteChronicles">> ) @@
  ( "*/1 * * * *"      :> <<"syncChroniclesUpdates", "syncUserStakes", "healthz">> ) @@
  ( "0 * * * *"        :> <<"provideLiquidity">> ) @@
  ( "*/15 * * * *"     :> <<"shieldClean", "recordDacPerformance">> )

WEB_CRON_TO_JOBS ==
  ( "0,30 12-23 * * *" :> <<>> ) @@
  ( "15 13-15 * * *"   :> <<>> ) @@
  ( "*/1 * * * *"      :> <<"healthz">> ) @@
  ( "0 * * * *"        :> <<>> ) @@
  ( "*/15 * * * *"     :> <<>> )

\* The tables as deployed, and a second content of the same two tables in
\* which the backends disagree: an expression only the web backend maps
\* ("5 4 * * *"), one the worker maps to an empty list while the web backend
\* has a job ("0 * * * *"), and one both map to an empty list.
DeployedSchedule == [worker |-> WORKER_CRON_TO_JOBS, web |-> WEB_CRON_TO_JOBS]

DriftedSchedule ==
  [worker |-> ( "*/1 * * * *"  :> <<"syncUserStakes">> ) @@
              ( "0 * * * *"    :> <<>> ) @@
              ( "*/15 * * * *" :> <<>> ),
   web    |-> ( "*/1 * * * *"  :> <<>> ) @@
              ( "0 * * * *"    :> <<"healthz">> ) @@
              ( "*/15 * * * *" :> <<>> ) @@
              ( "5 4 * * *"    :> <<"healthz">> )]

Schedules == {DeployedSchedule, DriftedSchedule}

\* Schedule expressions a trigger can deliver: the mapped ones, the two the
\* README lists for staging hours, and one that only the drifted web table has.
CronExprs == (DOMAIN WORKER_CRON_TO_JOBS) \cup
             {"0,30 6-23 * * *", "15 7-9 * * *", "5 4 * * *"}

TickIds == {1}

----------------------------------------------------------------------------
(* Runtime configuration *)

EnvKeys == {"BASE_URL", "WEB_URL", "INTERNAL_API_KEY", "ENABLED", "SLACK_WEBHOOK_URL"}

EnabledValues == {"true", "false", "TRUE"}
WebhookValues == {<<>>, <<" ">>, <<" ", "https://hooks.slack", " ">>}
FullEnvs ==
  { ("BASE_URL" :> <<"https://worker.example", "/", "/">>) @@
    ("WEB_URL" :> <<"https://web.example">>) @@
    ("INTERNAL_API_KEY" :> <<"s3cret">>) @@
    ("ENABLED" :> <<en>>) @@
    ("SLACK_WEBHOOK_URL" :> wh) : en \in EnabledValues, wh \in WebhookValues }

\* Any of the variables except the secret may be missing from the deployment.
OptionalKeys == {"BASE_URL", "WEB_URL", "ENABLED", "SLACK_WEBHOOK_URL"}
Envs == { [k \in (EnvKeys \ missing) |-> e[k]] :
            e \in FullEnvs, missing \in SUBSET OptionalKeys }

----------------------------------------------------------------------------
(* The outside world: what an outbound fetch can come back with *)

\* A fetch either throws (DNS, connection, timeout: no response at all) or
\* yields a response; reading the body of a response with res.text() can
\* itself fail.
JobResponses ==
  { [kind |-> "response", status |-> 200, textOk |-> TRUE,  text |-> <<"o", "k">>],
    [kind |-> "response", status |-> 409, textOk |-> TRUE,  text |-> <<"d", "u", "p">>],
    [kind |-> "response", status |-> 500, textOk |-> TRUE,  text |-> <<"b", "o", "o", "m">>],
    [kind |-> "response", status |-> 503, textOk |-> TRUE,  text |-> <<>>],
    [kind |-> "response", status |-> 503, textOk |-> FALSE, text |-> <<>>],
    [kind |-> "response", status |-> 524, textOk |-> TRUE,  text |-> <<"l", "a", "t", "e">>] }

FetchThrows == [kind |-> "throw", message |-> <<"fetch failed">>]

JobOutcomes == JobResponses \cup {FetchThrows}

SlackOutcomes ==
  { [kind |-> "response", status |-> 200],
    [kind |-> "response", status |-> 404],
    [kind |-> "throw", message |-> <<"fetch failed">>] }

\* Response.ok
ResOk(res) == res.status >= 200 /\ res.status <= 299

\* The one duration and the one clock reading the model uses: Date.now()
\* differences and nowISO() are carried through the results and the alert
\* text but no decision depends on them.
ElapsedMs == 7
NowISO == <<"2025-01-01T00:00:00.000Z">>

----------------------------------------------------------------------------
(* String helpers *)

RECURSIVE StripTrailingSlashes(_)
\* String.prototype.replace(/\/+$/, '')
StripTrailingSlashes(s) ==
  IF Len(s) > 0 /\ s[Len(s)] = "/"
    THEN StripTrailingSlashes(SubSeq(s, 1, Len(s) - 1))
    ELSE s

RECURSIVE TrimStart(_)
TrimStart(s) ==
  IF Len(s) > 0 /\ s[1] = " " THEN TrimStart(Tail(s)) ELSE s

RECURSIVE TrimEnd(_)
TrimEnd(s) ==
  IF Len(s) > 0 /\ s[Len(s)] = " " THEN TrimEnd(SubSeq(s, 1, Len(s) - 1)) ELSE s

\* String.prototype.trim()
Trim(s) == TrimEnd(TrimStart(s))

\* String.prototype.startsWith
StartsWith(s, prefix) ==
  Len(s) >= Len(prefix) /\ SubSeq(s, 1, Len(prefix)) = prefix

\* slice without its end: the string kept whole.
Slice0_Whole(s, n) == s

\* String.prototype.slice(0, n)
Slice0(s, n) == SubSeq(s, 1, IF Len(s) < n THEN Len(s) ELSE n)

Digit(d) == <<"0", "1", "2", "3", "4", "5", "6", "7", "8", "9">>[d + 1]

RECURSIVE ToDecimal(_)
\* String(n) for a non-negative integer
ToDecimal(n) ==
  IF n < 10 THEN <<Digit(n)>> ELSE ToDecimal(n \div 10) \o <<Digit(n % 10)>>

BODY_LIMIT == 1500

INTERNAL_PREFIX == <<"/", "api", "/", "internal", "/">>

----------------------------------------------------------------------------
(* fullUrl, shouldAlert, slackTextForFailure *)

\* baseUrl.replace(...) throws a TypeError when the backend's variable is
\* not set; the caller decides what happens to it.
fullUrlThrows(platform, e) ==
  ~Has(e, IF platform = "worker" THEN "BASE_URL" ELSE "WEB_URL")

fullUrl(platform, e, endpoint) ==
  LET baseUrl == IF platform = "worker" THEN e["BASE_URL"] ELSE e["WEB_URL"]
  IN  [url     |-> StripTrailingSlashes(baseUrl) \o endpoint.path,
       method  |-> endpoint.method,
       baseUrl |-> baseUrl]

Undefined == [undefined |-> TRUE]

\* The suppression rule of the worker's earlier revision: only 503 is
\* suppressed.
shouldAlert_Only503(jobResult) ==
  IF jobResult = Undefined THEN TRUE
  ELSE ~(Has(jobResult, "status") /\ jobResult.status = 503)

shouldAlert(jobResult) ==
  IF jobResult = Undefined THEN TRUE
  ELSE IF Has(jobResult, "status") /\ jobResult.status \in {503, 409} THEN FALSE
  ELSE IF Has(jobResult, "status") /\ jobResult.status = 524
          /\ jobResult.job = "provideLiquidity" THEN FALSE
  ELSE TRUE

\* The alert text, kept as the record of the values interpolated into it.
slackTextForFailure(opts) ==
  [cron      |-> opts.cron,
   job       |-> opts.job,
   statusStr |-> IF Has(opts, "status") THEN ToDecimal(opts.status)
                                        ELSE <<"network error">>,
   ms        |-> opts.ms,
   when      |-> opts.timestampISO,
   url       |-> opts.url,
   baseUrl   |-> opts.baseUrl,
   bodySnippet |-> IF Has(opts, "body") /\ opts.body # <<>>
                     THEN <<"Body (trimmed)">> \o opts.body ELSE <<>>]

----------------------------------------------------------------------------
(* runJob *)

\* runJob of the worker's earlier revision up to its first await: the
\* secret is sent with every call, whatever the path.
runJobStart_AlwaysAuth(platform, job, e) ==
  IF fullUrlThrows(platform, e)
    THEN [platform |-> platform, job |-> job, state |-> "rejected",
          reason |-> "TypeError"]
    ELSE LET target == fullUrl(platform, e, JOB_ENDPOINT[job])
         IN  [platform |-> platform, job |-> job, state |-> "pending",
              baseUrl |-> target.baseUrl,
              call |-> [url     |-> target.url,
                        method  |-> target.method,
                        headers |-> {<<"Internal-Authorization", e["INTERNAL_API_KEY"]>>}]]

\* runJob up to its first await: fullUrl is evaluated before the try block,
\* so a throw there rejects the promise runJob returns; otherwise the
\* outbound call is issued and the promise is pending.
runJobStart(platform, job, e) ==
  IF fullUrlThrows(platform, e)
    THEN [platform |-> platform, job |-> job, state |-> "rejected",
          reason |-> "TypeError"]
    ELSE LET target == fullUrl(platform, e, JOB_ENDPOINT[job])
         IN  [platform |-> platform, job |-> job, state |-> "pending",
              baseUrl |-> target.baseUrl,
              call |-> [url     |-> target.url,
                        method  |-> target.method,
                        headers |-> IF StartsWith(JOB_ENDPOINT[job].path, INTERNAL_PREFIX)
                                      THEN {<<"Internal-Authorization", e["INTERNAL_API_KEY"]>>}
                                      ELSE {}]]

\* runJob's return value with the status of an HTTP failure left to the
\* error text alone.
runJobResult_StatusInErrorOnly(inv, out) ==
  IF out.kind = "throw"
    THEN [job |-> inv.job, ok |-> FALSE, ms |-> ElapsedMs, url |-> inv.call.url,
          error |-> out.message, baseUrl |-> inv.baseUrl]
  ELSE IF ~ResOk(out)
    THEN LET body    == IF out.textOk THEN out.text ELSE <<>>
             trimmed == Slice0(body, BODY_LIMIT)
         IN  [job |-> inv.job, ok |-> FALSE,
              ms |-> ElapsedMs, url |-> inv.call.url, baseUrl |-> inv.baseUrl,
              error |-> <<"HTTP ">> \o ToDecimal(out.status), body |-> trimmed]
  ELSE [job |-> inv.job, ok |-> TRUE, status |-> out.status, ms |-> ElapsedMs,
        url |-> inv.call.url, baseUrl |-> inv.baseUrl]

\* runJob from the settling of its fetch to its return value.
runJobResult(inv, out) ==
  IF out.kind = "throw"
    THEN [job |-> inv.job, ok |-> FALSE, ms |-> ElapsedMs, url |-> inv.call.url,
          error |-> out.message, baseUrl |-> inv.baseUrl]
  ELSE IF ~ResOk(out)
    THEN LET body    == IF out.textOk THEN out.text ELSE <<>>
             trimmed == Slice0(body, BODY_LIMIT)
         IN  [job |-> inv.job, ok |-> FALSE, status |-> out.status,
              ms |-> ElapsedMs, url |-> inv.call.url, baseUrl |-> inv.baseUrl,
              error |-> <<"HTTP ">> \o ToDecimal(out.status), body |-> trimmed]
  ELSE [job |-> inv.job, ok |-> TRUE, status |-> out.status, ms |-> ElapsedMs,
        url |-> inv.call.url, baseUrl |-> inv.baseUrl]

\* The console line runJob writes for a result.
runJobLog(r) ==
  IF r.ok THEN [level |-> "log", what |-> "job OK", job |-> r.job, url |-> r.url,
                status |-> r.status]
  ELSE IF Has(r, "status")
    THEN [level |-> "error", what |-> "job status", job |-> r.job, url |-> r.url,
          status |-> r.status, body |-> r.body]
  ELSE [level |-> "error", what |-> "job fetch error", job |-> r.job,
        url |-> r.url, err |-> r.error]

\* The runJob promise once resolved with its JobResult.
Resolved(inv, r) ==
  [platform |-> inv.platform, job |-> inv.job, state |-> "resolved",
   baseUrl |-> inv.baseUrl, call |-> inv.call, result |-> r]

----------------------------------------------------------------------------
(* postSlack *)

\* postSlack up to its await: the POST to the webhook is in flight.
postSlackStart(webhook, payload) ==
  [state |-> "pending",
   call  |-> [url |-> webhook, method |-> "POST",
              headers |-> {<<"Content-Type", <<"application/json">> >>},
              body |-> payload]]

\* postSlack catches everything: whatever the webhook does, its promise
\* fulfils, and a failure is only logged.
postSlackSettle(out) == "fulfilled"

postSlackLog(out) ==
  IF out.kind = "throw"
    THEN {[level |-> "error", what |-> "Slack webhook error", err |-> out.message]}
  ELSE IF ~ResOk(out)
    THEN {[level |-> "error", what |-> "Slack webhook failed", status |-> out.status]}
  ELSE {}

----------------------------------------------------------------------------
(* scheduled *)

\* The gate read as "anything but 'false' enables".
FeatureEnabled_NotFalse(e) ==
  (IF Has(e, "ENABLED") THEN e["ENABLED"] ELSE <<"false">>) # <<"false">>

\* (env.ENABLED ?? 'false') !== 'true' is the negation of this.
FeatureEnabled(e) ==
  (IF Has(e, "ENABLED") THEN e["ENABLED"] ELSE <<"false">>) = <<"true">>

\* The lookup guard without its length test.
NoJobsMapped_MissingOnly(table, c) == ~Has(table, c)

\* !workerJobs || workerJobs.length === 0
NoJobsMapped(table, c) == ~Has(table, c) \/ Len(table[c]) = 0

\* WEB_CRON_TO_JOBS[ev.cron] || []
WebJobs(table, c) == IF Has(table, c) THEN table[c] ELSE <<>>

\* allJobs: the worker promises followed by the web promises.
AllJobs(workerJobs, webJobs, e) ==
  [i \in 1..Len(workerJobs) |-> runJobStart("worker", workerJobs[i], e)] \o
  [i \in 1..Len(webJobs)    |-> runJobStart("web", webJobs[i], e)]

\* results.filter(r => !r.ok).filter(r => shouldAlert(r))
AlertWorthy(rs) == SelectSeq(SelectSeq(rs, LAMBDA r : ~r.ok), LAMBDA r : shouldAlert(r))

AlertOpts(c, r) ==
  LET base == [cron |-> c, job |-> r.job, url |-> r.url, ms |-> r.ms,
               baseUrl |-> r.baseUrl, timestampISO |-> NowISO]
      withStatus == IF Has(r, "status") THEN base @@ ("status" :> r.status) ELSE base
  IN  IF Has(r, "body") THEN withStatus @@ ("body" :> r.body) ELSE withStatus

\* Alerts posted as the job calls are: with the Internal-Authorization
\* header.
Alerts_Authenticated(e, c, rs) ==
  IF Has(e, "SLACK_WEBHOOK_URL") /\ Trim(e["SLACK_WEBHOOK_URL"]) # <<>>
    THEN LET webhook == Trim(e["SLACK_WEBHOOK_URL"])
             worthy  == AlertWorthy(rs)
         IN  [k \in 1..Len(worthy) |->
                LET p == postSlackStart(webhook, [text |-> slackTextForFailure(AlertOpts(c, worthy[k]))])
                IN  [state |-> p.state,
                     call  |-> [url |-> p.call.url, method |-> p.call.method,
                                headers |-> p.call.headers \cup
                                  {<<"Internal-Authorization", e["INTERNAL_API_KEY"]>>},
                                body |-> p.call.body]]]
    ELSE <<>>

\* The postSlack promises created for a tick's results; none when the
\* trimmed webhook is undefined or empty.
Alerts(e, c, rs) ==
  IF Has(e, "SLACK_WEBHOOK_URL") /\ Trim(e["SLACK_WEBHOOK_URL"]) # <<>>
    THEN LET webhook == Trim(e["SLACK_WEBHOOK_URL"])
             worthy  == AlertWorthy(rs)
         IN  [k \in 1..Len(worthy) |->
                postSlackStart(webhook, [text |-> slackTextForFailure(AlertOpts(c, worthy[k]))])]
    ELSE <<>>

NoError == [name |-> "none"]

\* The tail of the task with the count of the worker's earlier revision:
\* failures whose status is not 503.
Finalize_Non503(c, rs) ==
  LET failed == SelectSeq(rs, LAMBDA r : ~r.ok)
      non503 == SelectSeq(failed, LAMBDA r : ~(Has(r, "status") /\ r.status = 503))
  IN  IF Len(failed) > 0
        THEN [pc |-> "failed",
              thrown |-> [name |-> "Error", cron |-> c, failed |-> Len(failed),
                          total |-> Len(rs), unexpectedFailed |-> Len(non503)]]
        ELSE [pc |-> "done", thrown |-> NoError]

\* The tail of the background task: throw the aggregate error if any job
\* failed, otherwise finish silently.
Finalize(c, rs) ==
  LET failed == SelectSeq(rs, LAMBDA r : ~r.ok)
      anyFailed == \E i \in 1..Len(rs) : ~rs[i].ok
  IN  IF anyFailed
        THEN [pc |-> "failed",
              thrown |-> [name |-> "Error", cron |-> c, failed |-> Len(failed),
                          total |-> Len(rs),
                          unexpectedFailed |-> Len(AlertWorthy(rs))]]
        ELSE [pc |-> "done", thrown |-> NoError]

\* The deliveries awaited fail-fast and unguarded: a delivery that fails at
\* transport level rejects the await.
AwaitAlerts_FailFast(as) ==
  IF \E k \in DOMAIN as : as[k].outcome.kind = "throw" THEN "rejected" ELSE "fulfilled"

\* await Promise.allSettled(alerts): resumes once every delivery has
\* settled and never rejects, whatever the deliveries did.
AwaitAlerts(as) == "fulfilled"

----------------------------------------------------------------------------
(* State machine *)

NotApplied == [fn |-> "none"]

\* One entry of steps: an operation of the handler or of its background task.
Step(op) == [op |-> op]

\* How the background task ends: by the throw of the aggregate error or by
\* running off its end.
TaskEnd(fin) == Step(IF fin.pc = "failed" THEN "taskRejected" ELSE "taskFulfilled")

Init ==
  /\ env \in Envs
  /\ schedule \in Schedules
  /\ cron = [t \in TickIds |-> ""]
  /\ pc = [t \in TickIds |-> "idle"]
  /\ invs = [t \in TickIds |-> <<>>]
  /\ results = [t \in TickIds |-> <<>>]
  /\ alerts = [t \in TickIds |-> <<>>]
  /\ thrown = [t \in TickIds |-> NoError]
  /\ log = [t \in TickIds |-> {}]
  /\ steps = [t \in TickIds |-> <<>>]
  /\ applied = NotApplied

\* The entrypoint behind a lock: a tick that finds another tick's jobs still
\* in flight dispatches nothing.
scheduled_OneTickAtATime(t, c) ==
  /\ pc[t] = "idle"
  /\ cron' = [cron EXCEPT ![t] = c]
  /\ IF ~FeatureEnabled(env)
       THEN /\ pc' = [pc EXCEPT ![t] = "skipped"]
            /\ log' = [log EXCEPT ![t] = @ \cup {[level |-> "log", what |-> "disabled", cron |-> c]}]
            /\ steps' = [steps EXCEPT ![t] =
                 <<Step("readGate"), Step("logDisabled"), Step("return")>>]
            /\ UNCHANGED <<invs, thrown>>
       ELSE IF NoJobsMapped(schedule.worker, c)
                 \/ \E u \in DOMAIN pc \ {t} : pc[u] = "joining"
         THEN /\ pc' = [pc EXCEPT ![t] = "unmapped"]
              /\ log' = [log EXCEPT ![t] = @ \cup {[level |-> "error", what |-> "no jobs mapped", cron |-> c]}]
              /\ steps' = [steps EXCEPT ![t] =
                   <<Step("readGate"), Step("lookupWorker"), Step("logNoJobs"),
                     Step("return")>>]
              /\ UNCHANGED <<invs, thrown>>
         ELSE LET allJobs == AllJobs(schedule.worker[c], WebJobs(schedule.web, c), env)
                  rejects == \E i \in 1..Len(allJobs) : allJobs[i].state = "rejected"
              IN  /\ invs' = [invs EXCEPT ![t] = allJobs]
                  /\ pc' = [pc EXCEPT ![t] = IF rejects THEN "crashed" ELSE "joining"]
                  /\ thrown' = [thrown EXCEPT ![t] = IF rejects THEN [name |-> "TypeError"] ELSE @]
                  /\ steps' = [steps EXCEPT ![t] =
                       <<Step("readGate"), Step("lookupWorker"), Step("lookupWeb")>> \o
                       [i \in 1..Len(allJobs) |-> Step("runJob")] \o
                       <<Step("waitUntil"), Step("return")>> \o
                       (IF rejects THEN <<Step("taskRejected")>> ELSE <<>>)]
                  /\ UNCHANGED log
  /\ UNCHANGED <<applied, env, schedule, results, alerts>>

\* The entrypoint with its two guards in the other order: the table lookup
\* and its diagnostic first, the feature gate after.
scheduled_LookupFirst(t, c) ==
  /\ pc[t] = "idle"
  /\ cron' = [cron EXCEPT ![t] = c]
  /\ IF NoJobsMapped(schedule.worker, c)
       THEN /\ pc' = [pc EXCEPT ![t] = "unmapped"]
            /\ log' = [log EXCEPT ![t] = @ \cup {[level |-> "error", what |-> "no jobs mapped", cron |-> c]}]
            /\ steps' = [steps EXCEPT ![t] =
                 <<Step("lookupWorker"), Step("logNoJobs"), Step("return")>>]
            /\ UNCHANGED <<invs, thrown>>
       ELSE IF ~FeatureEnabled(env)
         THEN /\ pc' = [pc EXCEPT ![t] = "skipped"]
              /\ log' = [log EXCEPT ![t] = @ \cup {[level |-> "log", what |-> "disabled", cron |-> c]}]
              /\ steps' = [steps EXCEPT ![t] =
                   <<Step("lookupWorker"), Step("readGate"), Step("logDisabled"),
                     Step("return")>>]
              /\ UNCHANGED <<invs, thrown>>
         ELSE LET allJobs == AllJobs(schedule.worker[c], WebJobs(schedule.web, c), env)
                  rejects == \E i \in 1..Len(allJobs) : allJobs[i].state = "rejected"
              IN  /\ invs' = [invs EXCEPT ![t] = allJobs]
                  /\ pc' = [pc EXCEPT ![t] = IF rejects THEN "crashed" ELSE "joining"]
                  /\ thrown' = [thrown EXCEPT ![t] = IF rejects THEN [name |-> "TypeError"] ELSE @]
                  /\ steps' = [steps EXCEPT ![t] =
                       <<Step("lookupWorker"), Step("readGate"), Step("lookupWeb")>> \o
                       [i \in 1..Len(allJobs) |-> Step("runJob")] \o
                       <<Step("waitUntil"), Step("return")>> \o
                       (IF rejects THEN <<Step("taskRejected")>> ELSE <<>>)]
                  /\ UNCHANGED log
  /\ UNCHANGED <<applied, env, schedule, results, alerts>>

\* The cron entrypoint, run to the point where the handler has returned and
\* the background task is suspended at `await Promise.all(allJobs)`.  Every
\* runJob call is made before Promise.all sees the promises, and a promise
\* that is already rejected makes Promise.all reject before any response
\* can be delivered, so the task then ends at once with that rejection.
scheduled(t, c) ==
  /\ pc[t] = "idle"
  /\ cron' = [cron EXCEPT ![t] = c]
  /\ IF ~FeatureEnabled(env)
       THEN /\ pc' = [pc EXCEPT ![t] = "skipped"]
            /\ log' = [log EXCEPT ![t] = @ \cup {[level |-> "log", what |-> "disabled", cron |-> c]}]
            /\ steps' = [steps EXCEPT ![t] =
                 <<Step("readGate"), Step("logDisabled"), Step("return")>>]
            /\ UNCHANGED <<invs, thrown>>
       ELSE IF NoJobsMapped(schedule.worker, c)
         THEN /\ pc' = [pc EXCEPT ![t] = "unmapped"]
              /\ log' = [log EXCEPT ![t] = @ \cup {[level |-> "error", what |-> "no jobs mapped", cron |-> c]}]
              /\ steps' = [steps EXCEPT ![t] =
                   <<Step("readGate"), Step("lookupWorker"), Step("logNoJobs"),
                     Step("return")>>]
              /\ UNCHANGED <<invs, thrown>>
         ELSE LET allJobs == AllJobs(schedule.worker[c], WebJobs(schedule.web, c), env)
                  rejects == \E i \in 1..Len(allJobs) : allJobs[i].state = "rejected"
              IN  /\ invs' = [invs EXCEPT ![t] = allJobs]
                  /\ pc' = [pc EXCEPT ![t] = IF rejects THEN "crashed" ELSE "joining"]
                  /\ thrown' = [thrown EXCEPT ![t] = IF rejects THEN [name |-> "TypeError"] ELSE @]
                  /\ steps' = [steps EXCEPT ![t] =
                       <<Step("readGate"), Step("lookupWorker"), Step("lookupWeb")>> \o
                       [i \in 1..Len(allJobs) |-> Step("runJob")] \o
                       <<Step("waitUntil"), Step("return")>> \o
                       (IF rejects THEN <<Step("taskRejected")>> ELSE <<>>)]
                  /\ UNCHANGED log
  /\ UNCHANGED <<applied, env, schedule, results, alerts>>

\* The fetch of invocation i settles and runJob runs to its return.  The
\* call stays in flight when the task has already ended with a rejection;
\* whether it still completes then is up to the runtime.
JobSettles(t, i, out) ==
  /\ i \in 1..Len(invs[t])
  /\ invs[t][i].state = "pending"
  /\ LET r == runJobResult(invs[t][i], out)
     IN  /\ invs' = [invs EXCEPT ![t][i] = Resolved(@, r)]
         /\ log' = [log EXCEPT ![t] = @ \cup {runJobLog(r)}]
  /\ UNCHANGED <<applied, env, schedule, cron, pc, results, alerts, thrown, steps>>

\* The join of the jobs followed by alerts that are posted but not awaited:
\* the task runs to its end while the deliveries are in flight.
JobsJoined_AlertsNotAwaited(t) ==
  /\ pc[t] = "joining"
  /\ \A i \in 1..Len(invs[t]) : invs[t][i].state = "resolved"
  /\ LET rs  == [i \in 1..Len(invs[t]) |-> invs[t][i].result]
         fin == Finalize(cron[t], rs)
     IN  /\ results' = [results EXCEPT ![t] = rs]
         /\ alerts' = [alerts EXCEPT ![t] = Alerts(env, cron[t], rs)]
         /\ pc' = [pc EXCEPT ![t] = fin.pc]
         /\ thrown' = [thrown EXCEPT ![t] = fin.thrown]
         /\ steps' = [steps EXCEPT ![t] =
              @ \o [k \in 1..Len(Alerts(env, cron[t], rs)) |-> Step("postSlack")]
                \o <<TaskEnd(fin)>>]
  /\ UNCHANGED <<applied, env, schedule, cron, invs, log>>

\* Promise.all resolves: results is bound, the alerts are posted, and with
\* no alert to wait for the task runs straight to its end.
JobsJoined(t) ==
  /\ pc[t] = "joining"
  /\ \A i \in 1..Len(invs[t]) : invs[t][i].state = "resolved"
  /\ LET rs  == [i \in 1..Len(invs[t]) |-> invs[t][i].result]
         as  == Alerts(env, cron[t], rs)
         fin == Finalize(cron[t], rs)
     IN  /\ results' = [results EXCEPT ![t] = rs]
         /\ alerts' = [alerts EXCEPT ![t] = as]
         /\ IF Len(as) > 0
              THEN /\ pc' = [pc EXCEPT ![t] = "alerting"]
                   /\ steps' = [steps EXCEPT ![t] =
                        @ \o [k \in 1..Len(as) |-> Step("postSlack")]]
                   /\ UNCHANGED thrown
              ELSE /\ pc' = [pc EXCEPT ![t] = fin.pc]
                   /\ steps' = [steps EXCEPT ![t] = @ \o <<TaskEnd(fin)>>]
                   /\ thrown' = [thrown EXCEPT ![t] = fin.thrown]
  /\ UNCHANGED <<applied, env, schedule, cron, invs, log>>

\* Deliveries joined fail-fast with cancellation: a delivery that fails takes
\* the ones still in flight down with it.
SlackSettles_FailureCancelsRest(t, k, out) ==
  /\ k \in 1..Len(alerts[t])
  /\ alerts[t][k].state = "pending"
  /\ alerts' = [alerts EXCEPT ![t] =
       [j \in DOMAIN alerts[t] |->
          IF j = k
            THEN [state |-> "settled", call |-> alerts[t][j].call, outcome |-> out,
                  promise |-> postSlackSettle(out)]
          ELSE IF alerts[t][j].state = "pending" /\ (out.kind = "throw" \/ ~ResOk(out))
            THEN [state |-> "cancelled", call |-> alerts[t][j].call]
          ELSE alerts[t][j]]]
  /\ log' = [log EXCEPT ![t] = @ \cup postSlackLog(out)]
  /\ UNCHANGED <<applied, env, schedule, cron, pc, invs, results, thrown, steps>>

\* The POST of alert k settles and postSlack runs to its end.
SlackSettles(t, k, out) ==
  /\ k \in 1..Len(alerts[t])
  /\ alerts[t][k].state = "pending"
  /\ alerts' = [alerts EXCEPT ![t][k] =
                  [state |-> "settled", call |-> @.call, outcome |-> out,
                   promise |-> postSlackSettle(out)]]
  /\ log' = [log EXCEPT ![t] = @ \cup postSlackLog(out)]
  /\ UNCHANGED <<applied, env, schedule, cron, pc, invs, results, thrown, steps>>

\* Promise.allSettled resolves and the task runs to its end.
AlertsJoined(t) ==
  /\ pc[t] = "alerting"
  /\ \A k \in 1..Len(alerts[t]) : alerts[t][k].state = "settled"
  /\ LET fin == Finalize(cron[t], results[t])
     IN  IF AwaitAlerts(alerts[t]) = "rejected"
           THEN /\ pc' = [pc EXCEPT ![t] = "crashed"]
                /\ steps' = [steps EXCEPT ![t] = @ \o <<Step("taskRejected")>>]
                /\ thrown' = [thrown EXCEPT ![t] = [name |-> "AlertError"]]
           ELSE /\ pc' = [pc EXCEPT ![t] = fin.pc]
                /\ steps' = [steps EXCEPT ![t] = @ \o <<TaskEnd(fin)>>]
                /\ thrown' = [thrown EXCEPT ![t] = fin.thrown]
  /\ UNCHANGED <<applied, env, schedule, cron, invs, results, alerts, log>>

Next ==
  \/ \E t \in TickIds, c \in CronExprs : scheduled(t, c)
  \/ \E t \in TickIds : \E i \in DOMAIN invs[t], out \in JobOutcomes : JobSettles(t, i, out)
  \/ \E t \in TickIds : JobsJoined(t)
  \/ \E t \in TickIds : \E k \in DOMAIN alerts[t], out \in SlackOutcomes : SlackSettles(t, k, out)
  \/ \E t \in TickIds : AlertsJoined(t)

Spec == Init /\ [][Next]_vars

----------------------------------------------------------------------------
(* shouldAlert applied on its own to failed results of every job and status *)

FailureStatuses == (100..199) \cup (300..599)

FailedResults ==
  { [job |-> j, ok |-> FALSE, status |-> st, ms |-> ElapsedMs, url |-> <<"u">>,
     baseUrl |-> <<"b">>, error |-> <<"HTTP ">> \o ToDecimal(st), body |-> <<>>] :
      j \in JobKey, st \in FailureStatuses }
  \cup
  { [job |-> j, ok |-> FALSE, ms |-> ElapsedMs, url |-> <<"u">>,
     baseUrl |-> <<"b">>, error |-> <<"fetch failed">>] : j \in JobKey }

InitAlertPolicy ==
  /\ env \in {e \in Envs : DOMAIN e = EnvKeys /\ e["ENABLED"] = <<"true">>
                           /\ e["SLACK_WEBHOOK_URL"] = <<>>}
  /\ schedule = DeployedSchedule
  /\ cron = [t \in TickIds |-> ""]
  /\ pc = [t \in TickIds |-> "idle"]
  /\ invs = [t \in TickIds |-> <<>>]
  /\ results = [t \in TickIds |-> <<>>]
  /\ alerts = [t \in TickIds |-> <<>>]
  /\ thrown = [t \in TickIds |-> NoError]
  /\ log = [t \in TickIds |-> {}]
  /\ steps = [t \in TickIds |-> <<>>]
  /\ applied = NotApplied

ApplyShouldAlert(r) ==
  /\ applied = NotApplied
  /\ applied' = [fn |-> "shouldAlert", arg |-> r, ret |-> shouldAlert(r)]
  /\ UNCHANGED <<env, schedule, cron, pc, invs, results, alerts, thrown, log, steps>>

NextAlertPolicy == \E r \in FailedResults \cup {Undefined} : ApplyShouldAlert(r)

SpecAlertPolicy == InitAlertPolicy /\ [][NextAlertPolicy]_vars

----------------------------------------------------------------------------
(* Vocabulary of the properties *)

Started(t) == pc[t] # "idle"

\* The background task of tick t has ended.
Terminal(t) == pc[t] \in {"done", "failed", "crashed"}

GateOpen == Has(env, "ENABLED") /\ env["ENABLED"] = <<"true">>

\* A backend's job list for an expression; a missing entry counts as empty.
DueList(table, c) == IF c \in DOMAIN table THEN table[c] ELSE <<>>

DueSet(t) ==
  { <<"worker", DueList(schedule.worker, cron[t])[i]>> :
       i \in DOMAIN DueList(schedule.worker, cron[t]) } \cup
  { <<"web", DueList(schedule.web, cron[t])[i]>> :
       i \in DOMAIN DueList(schedule.web, cron[t]) }

\* (backend, job) pairs for which runJob has been called in tick t.
Invoked(t) == { <<invs[t][i].platform, invs[t][i].job>> : i \in DOMAIN invs[t] }

\* Invocations of tick t that have returned a JobResult.
Returned(t) == { i \in DOMAIN invs[t] : invs[t][i].state = "resolved" }
Failures(t) == { i \in Returned(t) : ~invs[t][i].result.ok }

\* The suppression rule as the specification words it (section 4.5).
Suppressed(r) ==
  Has(r, "status") /\ (r.status = 503 \/ r.status = 409
                       \/ (r.status = 524 /\ r.job = "provideLiquidity"))

WebhookConfigured ==
  Has(env, "SLACK_WEBHOOK_URL") /\ \E k \in DOMAIN env["SLACK_WEBHOOK_URL"] :
                                      env["SLACK_WEBHOOK_URL"][k] # " "

----------------------------------------------------------------------------
(* C1 *)

----------------------------------------------------------------------------
(* C2 *)

\* C2: an enabled tick whose expression no backend maps to a job (no entry,
\* or an empty list, on every backend) invokes no job, sends no alert and
\* raises nothing; all it does is write the "no jobs mapped" line.
C2_UnmappedDoesNothing ==
  \A t \in TickIds :
    (Started(t) /\ GateOpen
       /\ DueList(schedule.worker, cron[t]) = <<>>
       /\ DueList(schedule.web, cron[t]) = <<>>) =>
      /\ pc[t] = "unmapped"
      /\ invs[t] = <<>>
      /\ alerts[t] = <<>>
      /\ thrown[t] = NoError
      /\ log[t] = {[level |-> "error", what |-> "no jobs mapped", cron |-> cron[t]]}

\* An enabled tick was fired for an expression that both tables hold with
\* an empty list.
C2_Witness ==
  \E t \in TickIds :
    /\ Started(t) /\ GateOpen
    /\ cron[t] \in DOMAIN schedule.worker /\ cron[t] \in DOMAIN schedule.web
    /\ schedule.worker[cron[t]] = <<>> /\ schedule.web[cron[t]] = <<>>

----------------------------------------------------------------------------
(* C3 *)

\* C3: an enabled tick dispatches whenever at least one backend has a job
\* for the expression, and the (backend, job) pairs it invokes are the union
\* of both backends' lists, also when only the web backend has jobs.
C3_UnionOfBackendsInvoked ==
  \A t \in TickIds :
    (Started(t) /\ GateOpen) => Invoked(t) = DueSet(t)

----------------------------------------------------------------------------
(* C4 *)

\* C4: a tick that dispatched ends in the aggregate error exactly when one
\* of its JobResults is failed, and ends silently, with no error and no
\* alert, when all its jobs succeeded.
C4_AggregateErrorIffFailure ==
  \A t \in TickIds :
    (Terminal(t) /\ DueSet(t) # {}) =>
      /\ (thrown[t].name = "Error") <=> (Failures(t) # {})
      /\ (Returned(t) = DOMAIN invs[t] /\ Failures(t) = {}) =>
           (pc[t] = "done" /\ thrown[t] = NoError /\ alerts[t] = <<>>)

----------------------------------------------------------------------------
(* C5 *)

\* C5: the counts in the aggregate error are the number of failed JobResults
\* of the tick, the number of invocations of the tick (both backends), and
\* the number of failed JobResults that shouldAlert accepts; so
\* 0 <= unexpected <= failed <= total and failed >= 1, and none of them
\* depends on the webhook being configured.
C5_AggregateCounts ==
  \A t \in TickIds :
    (thrown[t].name = "Error") =>
      /\ thrown[t].failed = Cardinality(Failures(t))
      /\ thrown[t].total = Len(invs[t])
      /\ thrown[t].unexpectedFailed =
           Cardinality({ i \in Failures(t) : shouldAlert(invs[t][i].result) })
      /\ 0 <= thrown[t].unexpectedFailed
      /\ thrown[t].unexpectedFailed <= thrown[t].failed
      /\ thrown[t].failed <= thrown[t].total
      /\ thrown[t].failed >= 1

\* The every-15-minutes tick of the deployed tables with both jobs answering
\* 409 and no webhook value: "2/2 (unexpected failures=0)".
C5_Witness ==
  \E t \in TickIds :
    /\ ~Has(env, "SLACK_WEBHOOK_URL")
    /\ \A i \in DOMAIN invs[t] : invs[t][i].state = "resolved"
                                /\ invs[t][i].result.ok = FALSE
                                /\ Has(invs[t][i].result, "status")
                                /\ invs[t][i].result.status = 409
    /\ thrown[t] = [name |-> "Error", cron |-> "*/15 * * * *", failed |-> 2,
                    total |-> 2, unexpectedFailed |-> 0]

----------------------------------------------------------------------------
(* C6 *)

AlertFor(t, k, i) ==
  LET text == alerts[t][k].call.body.text
      r    == invs[t][i].result
  IN  /\ text.job = r.job
      /\ text.url = r.url
      /\ text.statusStr = (IF Has(r, "status") THEN ToDecimal(r.status)
                                               ELSE <<"network error">>)

\* C6: with a webhook configured, a tick issues exactly one delivery for
\* each failed JobResult that shouldAlert accepts, carrying that result's
\* job, status and URL, and no delivery for any other result.
C6_OneAlertPerWorthyFailure ==
  \A t \in TickIds :
    (WebhookConfigured /\ pc[t] \in {"alerting", "done", "failed", "crashed"}) =>
      LET worthy == { i \in Failures(t) : shouldAlert(invs[t][i].result) }
      IN  /\ Len(alerts[t]) = Cardinality(worthy)
          /\ \A i \in worthy :
               Cardinality({ k \in DOMAIN alerts[t] : AlertFor(t, k, i) }) = 1
          /\ \A k \in DOMAIN alerts[t] : \E i \in worthy : AlertFor(t, k, i)

----------------------------------------------------------------------------
(* C7 *)

----------------------------------------------------------------------------
(* C8 *)

\* C8: no alert delivery is started and the task does not raise while a job
\* invocation of the tick is in flight; every due job's call is issued and
\* runs to its own result whatever its siblings do.
C8_JoinAllBeforeProceeding ==
  \A t \in TickIds :
    /\ (alerts[t] # <<>> \/ thrown[t] # NoError) =>
          \A i \in DOMAIN invs[t] : invs[t][i].state # "pending"
    /\ \A i \in DOMAIN invs[t] : invs[t][i].state \in {"pending", "resolved"}
    /\ Terminal(t) => Returned(t) = DOMAIN invs[t]

----------------------------------------------------------------------------
(* C9 *)

\* C9: the promise runJob returns never rejects, for every backend, job,
\* configuration (a base URL that is not set included) and behaviour of the
\* outbound call, so the join over a tick's invocations never fails fast.
C9_RunJobNeverRejects ==
  \A t \in TickIds :
    /\ \A i \in DOMAIN invs[t] : invs[t][i].state # "rejected"
    /\ thrown[t].name # "TypeError"

----------------------------------------------------------------------------
(* C10 *)

\* The outcome the job results alone call for.
OutcomeOfResults(t) ==
  IF Failures(t) = {}
    THEN NoError
    ELSE [name |-> "Error", cron |-> cron[t],
          failed |-> Cardinality(Failures(t)),
          total |-> Cardinality(Returned(t)),
          unexpectedFailed |->
            Cardinality({ i \in Failures(t) : ~Suppressed(invs[t][i].result) })]

\* C10: once the alerts of a tick are posted, how the tick ends (silently, or
\* with the aggregate error and its three counts) is fixed by the job
\* results alone, whatever each delivery does; a delivery failure is never
\* raised out of the tick.
C10_AlertDeliveryDoesNotDecideOutcome ==
  \A t \in TickIds :
    (alerts[t] # <<>> /\ Terminal(t)) =>
      /\ thrown[t] = OutcomeOfResults(t)
      /\ pc[t] = (IF thrown[t] = NoError THEN "done" ELSE "failed")

\* A tick ended with the aggregate error after one of its deliveries failed
\* at transport level and another got a non-success response.
C10_Witness ==
  \E t \in TickIds :
    /\ pc[t] = "failed"
    /\ \E k \in DOMAIN alerts[t] : alerts[t][k].state = "settled"
                                  /\ alerts[t][k].outcome.kind = "throw"
    /\ \E k \in DOMAIN alerts[t] : alerts[t][k].state = "settled"
                                  /\ alerts[t][k].outcome.kind = "response"
                                  /\ alerts[t][k].outcome.status = 404


----------------------------------------------------------------------------
(* C11 *)

\* C11: the aggregate error is raised only once every job invocation of the
\* tick has produced its result and every alert delivery issued for the tick
\* has settled; it is never raised while a job call or an alert call of the
\* tick is pending.
C11_AggregateErrorAfterAllSettled ==
  \A t \in TickIds :
    (thrown[t].name = "Error") =>
      /\ \A i \in DOMAIN invs[t] : invs[t][i].state = "resolved"
      /\ \A k \in DOMAIN alerts[t] : alerts[t][k].state = "settled"

\* The aggregate error was raised in a tick that had posted two alerts.
C11_Witness ==
  \E t \in TickIds :
    /\ thrown[t].name = "Error"
    /\ Len(alerts[t]) >= 2
    /\ \A k \in DOMAIN alerts[t] : alerts[t][k].state = "settled"


----------------------------------------------------------------------------
(* C12 *)

\* Every alert-worthy failure among the joined results has its delivery in
\* flight or settled as soon as any delivery exists.
AllAlertsPosted(t) ==
  (pc[t] = "alerting" \/ alerts[t] # <<>>) =>
    /\ Len(alerts[t]) =
         Cardinality({ i \in DOMAIN results[t] :
                         ~results[t][i].ok /\ ~Suppressed(results[t][i]) })
    /\ \A k \in DOMAIN alerts[t] : alerts[t][k].state \in {"pending", "settled"}

\* A step never withdraws, re-issues or cancels a delivery, and never
\* touches one that has settled.
AlertsKeptAsPosted(t) ==
  (alerts[t] # <<>>) =>
    /\ Len(alerts'[t]) = Len(alerts[t])
    /\ \A k \in DOMAIN alerts[t] :
         /\ alerts'[t][k].call = alerts[t][k].call
         /\ alerts'[t][k].state \in {"pending", "settled"}
         /\ (alerts[t][k].state = "settled") => (alerts'[t][k] = alerts[t][k])

\* C12: the alert deliveries of a tick are all started before any is
\* awaited and each is attempted exactly once: a delivery that fails
\* neither prevents nor cancels another one, and none is retried.
C12_AlertsIndependentAndOnce ==
  /\ [](\A t \in TickIds : AllAlertsPosted(t))
  /\ [][\A t \in TickIds : AlertsKeptAsPosted(t)]_vars

\* A tick ended after one of its deliveries failed at transport level and
\* another one was answered 200.
C12_Witness ==
  \E t \in TickIds :
    /\ Terminal(t)
    /\ \E k \in DOMAIN alerts[t] : alerts[t][k].state = "settled"
                                  /\ alerts[t][k].outcome.kind = "throw"
    /\ \E k \in DOMAIN alerts[t] : alerts[t][k].state = "settled"
                                  /\ alerts[t][k].outcome.kind = "response"
                                  /\ alerts[t][k].outcome.status = 200


----------------------------------------------------------------------------
(* C13 *)

\* Invocations of tick t whose outbound call was issued.
Called(t) == { i \in DOMAIN invs[t] : Has(invs[t][i], "call") }

\* C13: an enabled tick issues exactly one outbound call for each
\* (backend, job) pair of its due set, none skipped and none repeated, so
\* the number of outbound job calls is the size of the due set.
C13_EachDuePairCalledOnce ==
  \A t \in TickIds :
    (Started(t) /\ GateOpen) =>
      /\ \A p \in DueSet(t) :
           Cardinality({ i \in Called(t) :
                           <<invs[t][i].platform, invs[t][i].job>> = p }) = 1
      /\ Cardinality(Called(t)) = Cardinality(DueSet(t))


----------------------------------------------------------------------------
(* C14 *)

\* The path of a job lies under /api/internal/.
UnderInternalApi(job) ==
  LET path == JOB_ENDPOINT[job].path
  IN  /\ Len(path) >= 5
      /\ path[1] = "/" /\ path[2] = "api" /\ path[3] = "/"
      /\ path[4] = "internal" /\ path[5] = "/"

CarriesSecret(call) ==
  <<"Internal-Authorization", env["INTERNAL_API_KEY"]>> \in call.headers

\* C14: an outbound job call carries the Internal-Authorization header with
\* the shared secret iff the job's path starts with /api/internal/: healthz
\* is called without it on either backend, every other job with it.
C14_SecretOnlyForInternalPaths ==
  \A t \in TickIds : \A i \in Called(t) :
    LET inv == invs[t][i]
    IN  /\ CarriesSecret(inv.call) <=> UnderInternalApi(inv.job)
        /\ (inv.job = "healthz") => (inv.call.headers = {})
        /\ (inv.job # "healthz") => CarriesSecret(inv.call)

C14_Witness ==
  \E t \in TickIds : \E i, j, k \in Called(t) :
    /\ invs[t][i].platform = "worker" /\ invs[t][i].job = "healthz"
    /\ invs[t][i].call.headers = {}
    /\ invs[t][j].platform = "web" /\ invs[t][j].job = "healthz"
    /\ invs[t][j].call.headers = {}
    /\ invs[t][k].job = "syncUserStakes" /\ CarriesSecret(invs[t][k].call)


----------------------------------------------------------------------------
(* C15 *)

\* C15: with the webhook absent, empty or all whitespace a tick sends no
\* alert whatever its JobResults are, and still ends in the aggregate error
\* when a job failed, its unexpected count being the number of failures the
\* suppression rule does not cover.
C15_NoWebhookStillRaises ==
  \A t \in TickIds :
    ~WebhookConfigured =>
      /\ alerts[t] = <<>>
      /\ (Terminal(t) /\ Failures(t) # {}) =>
           /\ thrown[t].name = "Error"
           /\ thrown[t].unexpectedFailed =
                Cardinality({ i \in Failures(t) : ~Suppressed(invs[t][i].result) })


----------------------------------------------------------------------------
(* The request handler, applied to single requests *)

\* Requests as a client forms them: a path (empty for a bare authority), an
\* optional query or fragment, and a method. The runtime hands the handler
\* the serialised URL, which the handler parses again.
RequestPaths ==
  { <<>>, <<"/">>, <<"/", "run">>, <<"/", "run", "/">>, <<"/", "/">>,
    <<"/", "api", "/", "healthz">>, <<"/", "index.html">> }

RequestSuffixes ==
  { <<>>, <<"?", "job=healthz&key=k">>, <<"?", "next=", "/">>, <<"#", "/">> }

RequestMethods == {"GET", "HEAD", "POST", "PUT", "DELETE", "OPTIONS", "PATCH"}

RequestTargets ==
  { [path |-> p, suffix |-> s, method |-> m] :
      p \in RequestPaths, s \in RequestSuffixes, m \in RequestMethods }

\* The Request object the runtime builds for a target.
Request(target) ==
  [url    |-> <<"https://dc-cron.example">> \o target.path \o target.suffix,
   method |-> target.method]

RECURSIVE UpToQueryOrFragment(_)
UpToQueryOrFragment(s) ==
  IF s = <<>> \/ Head(s) \in {"?", "#"} THEN <<>>
  ELSE <<Head(s)>> \o UpToQueryOrFragment(Tail(s))

\* new URL(u).pathname: what follows the origin up to the query or the
\* fragment, "/" when that is empty.
Pathname(u) ==
  LET p == UpToQueryOrFragment(Tail(u))
  IN  IF p = <<>> THEN <<"/">> ELSE p

\* The handler without its method test.
fetch_AnyMethod(req) ==
  IF Pathname(req.url) = <<"/">>
    THEN [status |-> 200, body |-> <<"ok">>]
    ELSE [status |-> 404, body |-> <<"not found">>]

fetch(req) ==
  IF Pathname(req.url) = <<"/">> /\ req.method = "GET"
    THEN [status |-> 200, body |-> <<"ok">>]
    ELSE [status |-> 404, body |-> <<"not found">>]

InitHandler ==
  /\ env \in {e \in Envs : DOMAIN e = EnvKeys /\ e["ENABLED"] = <<"true">>
                           /\ e["SLACK_WEBHOOK_URL"] = <<>>}
  /\ schedule = DeployedSchedule
  /\ cron = [t \in TickIds |-> ""]
  /\ pc = [t \in TickIds |-> "idle"]
  /\ invs = [t \in TickIds |-> <<>>]
  /\ results = [t \in TickIds |-> <<>>]
  /\ alerts = [t \in TickIds |-> <<>>]
  /\ thrown = [t \in TickIds |-> NoError]
  /\ log = [t \in TickIds |-> {}]
  /\ steps = [t \in TickIds |-> <<>>]
  /\ applied = NotApplied

\* The handler with its manual trigger switched on: POST /run runs a job.
ApplyFetch_ManualTrigger(target) ==
  /\ applied = NotApplied
  /\ IF target.path = <<"/", "run">> /\ target.method = "POST"
       THEN /\ applied' = [fn |-> "fetch", arg |-> target,
                           ret |-> [status |-> 200, body |-> <<"ok">>]]
            /\ invs' = [t \in DOMAIN invs |->
                          Append(invs[t], runJobStart("worker", "healthz", env))]
       ELSE /\ applied' = [fn |-> "fetch", arg |-> target, ret |-> fetch(Request(target))]
            /\ UNCHANGED invs
  /\ UNCHANGED <<env, schedule, cron, pc, results, alerts, thrown, log, steps>>

ApplyFetch(target) ==
  /\ applied = NotApplied
  /\ applied' = [fn |-> "fetch", arg |-> target, ret |-> fetch(Request(target))]
  /\ UNCHANGED <<env, schedule, cron, pc, invs, results, alerts, thrown, log, steps>>

NextHandler == \E target \in RequestTargets : ApplyFetch(target)

SpecHandler == InitHandler /\ [][NextHandler]_vars

----------------------------------------------------------------------------
(* C16 *)

\* C16: the handler answers 200 "ok" exactly when the request's path is "/"
\* and its method is GET, and 404 for every other path and method (POST /
\* and GET /run included).
C16_LivenessEndpoint ==
  (applied.fn = "fetch") =>
    LET root == applied.arg.path \in {<<>>, <<"/">>}
        get  == applied.arg.method = "GET"
    IN  /\ (applied.ret.status = 200) <=> (root /\ get)
        /\ (applied.ret.status = 200) => (applied.ret.body = <<"ok">>)
        /\ (applied.ret.status # 200) => (applied.ret.status = 404)

\* POST / with a query was answered 404.
C16_Witness ==
  /\ applied.fn = "fetch"
  /\ applied.arg.path = <<"/">> /\ applied.arg.method = "POST"
  /\ applied.arg.suffix # <<>>
  /\ applied.ret.status = 404


----------------------------------------------------------------------------
(* runJob and the alert built from its result, applied to single outcomes *)

MaxBodyLen == 1502

\* Body lengths around zero and around the limit.
BodyLengths == (0..2) \cup (1498..MaxBodyLen)

\* A response body of n characters.
BodyText(n) == [i \in 1..n |-> Digit(i % 10)]

StatusCodes == {101, 200, 204, 299, 300, 404, 409, 500, 503, 524, 599}

RunJobResponses ==
  { [kind |-> "response", status |-> st, textOk |-> tk, text |-> BodyText(n)] :
      st \in StatusCodes, tk \in BOOLEAN, n \in BodyLengths }

RunJobThrows ==
  { FetchThrows,
    [kind |-> "throw", message |-> <<"The operation was aborted">>],
    [kind |-> "throw", message |-> <<>>] }

RunJobOutcomes == RunJobResponses \cup RunJobThrows

RunJobPairs ==
  { <<"worker", "provideLiquidity">>, <<"worker", "healthz">>, <<"web", "healthz">> }

\* Both base URLs set and a webhook configured.
InitRunJob ==
  /\ env \in {e \in Envs : DOMAIN e = EnvKeys /\ e["ENABLED"] = <<"true">>
                           /\ Trim(e["SLACK_WEBHOOK_URL"]) # <<>>}
  /\ schedule = DeployedSchedule
  /\ cron = [t \in TickIds |-> ""]
  /\ pc = [t \in TickIds |-> "idle"]
  /\ invs = [t \in TickIds |-> <<>>]
  /\ results = [t \in TickIds |-> <<>>]
  /\ alerts = [t \in TickIds |-> <<>>]
  /\ thrown = [t \in TickIds |-> NoError]
  /\ log = [t \in TickIds |-> {}]
  /\ steps = [t \in TickIds |-> <<>>]
  /\ applied = NotApplied

\* One runJob call whose fetch settles with out, and the alerts the task
\* would post for its result.
ApplyRunJob(platform, job, out) ==
  LET inv == runJobStart(platform, job, env)
      r   == runJobResult(inv, out)
  IN  /\ applied = NotApplied
      /\ applied' = [fn |-> "runJob",
                     arg |-> [platform |-> platform, job |-> job, out |-> out],
                     ret |-> r,
                     log |-> runJobLog(r),
                     alerts |-> Alerts(env, "0 * * * *", <<r>>)]
      /\ UNCHANGED <<env, schedule, cron, pc, invs, results, alerts, thrown, log, steps>>

NextRunJob ==
  \E p \in RunJobPairs, out \in RunJobOutcomes : ApplyRunJob(p[1], p[2], out)

SpecRunJob == InitRunJob /\ [][NextRunJob]_vars

----------------------------------------------------------------------------
(* C17 *)

\* C17: for a non-success response the body in the JobResult, in the error
\* log line and in the alert payload is the response body (empty when it
\* cannot be read) cut to its first 1500 characters: its length is
\* min(length, 1500) and a shorter body is unchanged.
C17_BodyCutAt1500 ==
  (applied.fn = "runJob" /\ applied.arg.out.kind = "response"
     /\ ~(applied.arg.out.status \in 200..299)) =>
    LET body == IF applied.arg.out.textOk THEN applied.arg.out.text ELSE <<>>
        n    == IF Len(body) < 1500 THEN Len(body) ELSE 1500
        kept == [i \in 1..n |-> body[i]]
    IN  /\ Len(applied.ret.body) = n
        /\ applied.ret.body = kept
        /\ applied.log.body = kept
        /\ \A k \in DOMAIN applied.alerts :
             LET snippet == applied.alerts[k].call.body.text.bodySnippet
             IN  IF n = 0 THEN snippet = <<>> ELSE Tail(snippet) = kept

\* A 500 with a body of more than 1500 characters was alerted with exactly
\* 1500 of them.
C17_Witness ==
  /\ applied.fn = "runJob" /\ applied.arg.out.kind = "response"
  /\ applied.arg.out.status = 500 /\ applied.arg.out.textOk
  /\ Len(applied.arg.out.text) > 1500
  /\ Len(applied.ret.body) = 1500
  /\ Len(applied.alerts) = 1
  /\ Len(Tail(applied.alerts[1].call.body.text.bodySnippet)) = 1500


----------------------------------------------------------------------------
(* C18 *)

\* The fields every JobResult has.
CommonFields == {"job", "ok", "ms", "url", "baseUrl"}

\* "HTTP <status>" for a three-digit status.
HttpError(st) ==
  <<"HTTP ", Digit(st \div 100), Digit((st \div 10) % 10), Digit(st % 10)>>

\* C18: a JobResult returned by runJob is a success (ok, the 2xx status of
\* the response, no error, no body), an HTTP failure (not ok, the non-2xx
\* status, error "HTTP <status>", the truncated body) or a transport failure
\* (not ok, no status, no body, the exception's message as error); a failed
\* result has no status iff the outbound call produced no response.
C18_ThreeResultShapes ==
  (applied.fn = "runJob") =>
    LET out == applied.arg.out
        r   == applied.ret
        success   == /\ DOMAIN r = CommonFields \cup {"status"}
                     /\ r.ok /\ r.status \in 200..299
        httpFail  == /\ DOMAIN r = CommonFields \cup {"status", "error", "body"}
                     /\ ~r.ok /\ r.status \notin 200..299
                     /\ r.error = HttpError(r.status)
                     /\ Len(r.body) <= 1500
        transport == /\ DOMAIN r = CommonFields \cup {"error"}
                     /\ ~r.ok
    IN  /\ success \/ httpFail \/ transport
        /\ success <=> (out.kind = "response" /\ out.status \in 200..299)
        /\ httpFail <=> (out.kind = "response" /\ out.status \notin 200..299)
        /\ transport <=> (out.kind = "throw")
        /\ (out.kind = "response") => (r.status = out.status)
        /\ (out.kind = "throw") => (r.error = out.message)
        /\ ~r.ok => ((~Has(r, "status")) <=> (out.kind = "throw"))

\* The web backend's healthz call threw and came back as a transport failure.
C18_Witness ==
  /\ applied.fn = "runJob"
  /\ applied.arg.platform = "web" /\ applied.arg.out.kind = "throw"
  /\ ~applied.ret.ok /\ ~Has(applied.ret, "status") /\ ~Has(applied.ret, "body")
  /\ applied.ret.error = <<"fetch failed">>


----------------------------------------------------------------------------
(* C19 *)

\* The README's table "Cron Jobs (UTC)": job, schedule, endpoint.
README_CRON_JOBS ==
  { [job |-> "createDailyChronicles", schedule |-> "0,30 6-23 * * *",
     endpoint |-> InternalPath("create-daily-chronicles")],
    [job |-> "processIncompleteChronicles", schedule |-> "15 7-9 * * *",
     endpoint |-> InternalPath("process-incomplete-chronicles")],
    [job |-> "syncChroniclesUpdates", schedule |-> "*/1 * * * *",
     endpoint |-> InternalPath("sync-chronicles-updates")],
    [job |-> "syncUserStakes", schedule |-> "*/1 * * * *",
     endpoint |-> InternalPath("sync-user-stakes")],
    [job |-> "provideLiquidity", schedule |-> "0 * * * *",
     endpoint |-> InternalPath("provide-liquidity")],
    [job |-> "shieldClean", schedule |-> "*/15 * * * *",
     endpoint |-> InternalPath("shield-clean")],
    [job |-> "recordDacPerformance", schedule |-> "*/15 * * * *",
     endpoint |-> InternalPath("record-dac-performance")] }

EndsWith(s, suffix) ==
  Len(s) >= Len(suffix) /\ SubSeq(s, Len(s) - Len(suffix) + 1, Len(s)) = suffix

\* C19: with the deployed tables and both base URLs set, an enabled tick
\* whose expression is the one a row of the README's table lists calls that
\* row's job at that row's endpoint path.
C19_ReadmeTableIsInvoked ==
  \A t \in TickIds :
    (Started(t) /\ GateOpen /\ schedule = DeployedSchedule
       /\ Has(env, "BASE_URL") /\ Has(env, "WEB_URL")) =>
      \A row \in README_CRON_JOBS :
        (row.schedule = cron[t]) =>
          \E i \in Called(t) :
            /\ invs[t][i].job = row.job
            /\ EndsWith(invs[t][i].call.url, row.endpoint)


----------------------------------------------------------------------------
(* C20 *)

EveryMinute(t) ==
  Started(t) /\ GateOpen /\ schedule = DeployedSchedule /\ cron[t] = "*/1 * * * *"

BaseUrlKey(platform) == IF platform = "worker" THEN "BASE_URL" ELSE "WEB_URL"

\* The four pairs are invoked, each with a call to its own backend's base
\* URL (trailing slashes dropped) followed by the job's path, and each
\* JobResult is that of its own call.
FourPairsEachOnOwnBackend(t) ==
  EveryMinute(t) =>
    /\ Invoked(t) = { <<"worker", "syncChroniclesUpdates">>, <<"worker", "syncUserStakes">>,
                      <<"worker", "healthz">>, <<"web", "healthz">> }
    /\ Len(invs[t]) = 4
    /\ \A i \in DOMAIN invs[t] :
         LET inv == invs[t][i]
         IN  /\ Has(inv, "call")
             /\ Has(env, BaseUrlKey(inv.platform))
             /\ inv.call.url = <<env[BaseUrlKey(inv.platform)][1]>> \o JOB_ENDPOINT[inv.job].path
             /\ (inv.state = "resolved") =>
                  /\ inv.result.job = inv.job
                  /\ inv.result.url = inv.call.url
                  /\ inv.result.baseUrl = env[BaseUrlKey(inv.platform)]

\* Whatever happens to one pair, the call and the JobResult of every other
\* pair stay what they are.
OtherPairsUntouched(t) ==
  EveryMinute(t) =>
    \A i \in DOMAIN invs[t] :
      /\ i \in DOMAIN invs'[t]
      /\ Has(invs[t][i], "call") =>
           (Has(invs'[t][i], "call") /\ invs'[t][i].call = invs[t][i].call)
      /\ (invs[t][i].state = "resolved") => (invs'[t][i] = invs[t][i])

\* C20: a tick for "*/1 * * * *" invokes the worker backend's three jobs and
\* the web backend's healthz together, each against its own base URL, and
\* the JobResult of a pair depends on that pair's response only: a failure
\* on one backend changes neither the call nor the result of a job on the
\* other.
C20_BackendsIndependent ==
  /\ [](\A t \in TickIds : FourPairsEachOnOwnBackend(t))
  /\ [][\A t \in TickIds : OtherPairsUntouched(t)]_vars


----------------------------------------------------------------------------
(* C21 *)

\* Positions of steps[t] at which op was done.
StepsOf(t, op) == { i \in DOMAIN steps[t] : steps[t][i].op = op }

\* C21: a tick reads the feature gate exactly once and first: no lookup, no
\* "no jobs mapped" line, no runJob and no alert comes before it, and a
\* disabled tick does nothing but write the skip notice, also when its
\* expression is unmapped.
C21_GateReadOnceAndFirst ==
  \A t \in TickIds :
    Started(t) =>
      /\ steps[t] # <<>>
      /\ steps[t][1].op = "readGate"
      /\ Cardinality(StepsOf(t, "readGate")) = 1
      /\ ~GateOpen =>
           /\ steps[t] = <<[op |-> "readGate"], [op |-> "logDisabled"], [op |-> "return"]>>
           /\ log[t] = {[level |-> "log", what |-> "disabled", cron |-> cron[t]]}

\* A tick for an expression no table of the deployment has was fired with
\* ENABLED missing, and skipped.
C21_Witness ==
  \E t \in TickIds :
    /\ Started(t) /\ ~Has(env, "ENABLED")
    /\ schedule = DeployedSchedule /\ cron[t] = "5 4 * * *"
    /\ StepsOf(t, "logDisabled") # {} /\ StepsOf(t, "logNoJobs") = {}


----------------------------------------------------------------------------
(* Two ticks in flight at once *)

\* The runtime may start a tick while an earlier one is still running.
OverlapTicks == {1, 2}

\* Deployments for the overlap: gate open, webhook configured, and the
\* worker's base URL set or missing.
OverlapEnvs ==
  { e \in Envs : /\ Has(e, "ENABLED") /\ e["ENABLED"] = <<"true">>
                 /\ Has(e, "SLACK_WEBHOOK_URL") /\ Trim(e["SLACK_WEBHOOK_URL"]) # <<>>
                 /\ Has(e, "WEB_URL") }

OverlapCrons == {"0 * * * *", "*/15 * * * *", "5 4 * * *"}

OverlapJobOutcomes ==
  { out \in JobOutcomes : out.kind = "throw" \/ out.status \in {200, 409, 500} }

InitOverlap ==
  /\ env \in OverlapEnvs
  /\ schedule = DeployedSchedule
  /\ cron = [t \in OverlapTicks |-> ""]
  /\ pc = [t \in OverlapTicks |-> "idle"]
  /\ invs = [t \in OverlapTicks |-> <<>>]
  /\ results = [t \in OverlapTicks |-> <<>>]
  /\ alerts = [t \in OverlapTicks |-> <<>>]
  /\ thrown = [t \in OverlapTicks |-> NoError]
  /\ log = [t \in OverlapTicks |-> {}]
  /\ steps = [t \in OverlapTicks |-> <<>>]
  /\ applied = NotApplied

NextOverlap ==
  \/ \E t \in OverlapTicks, c \in OverlapCrons : scheduled(t, c)
  \/ \E t \in OverlapTicks : \E i \in DOMAIN invs[t], out \in OverlapJobOutcomes :
       JobSettles(t, i, out)
  \/ \E t \in OverlapTicks : JobsJoined(t)
  \/ \E t \in OverlapTicks : \E k \in DOMAIN alerts[t], out \in SlackOutcomes :
       SlackSettles(t, k, out)
  \/ \E t \in OverlapTicks : AlertsJoined(t)

SpecOverlap == InitOverlap /\ [][NextOverlap]_vars


----------------------------------------------------------------------------
(* C22 *)

\* Everything the program holds for tick t.
TickState(t) ==
  <<cron[t], pc[t], invs[t], results[t], alerts[t], thrown[t], log[t], steps[t]>>

\* A step belongs to one tick: it leaves every other tick's state, and the
\* configuration and tables all ticks read, as they were.
StepOfOneTick ==
  /\ env' = env /\ schedule' = schedule
  /\ \E t \in DOMAIN pc : \A u \in DOMAIN pc \ {t} : TickState(u)' = TickState(u)

\* The calls the alerts of tick t were posted with.
AlertCalls(t) == [k \in DOMAIN alerts[t] |-> alerts[t][k].call]

\* A tick invokes its whole due set whatever the other tick is doing, and
\* its alerts and its outcome follow from its own expression and
\* JobResults: the alerts are those of its own alert-worthy failures, and
\* two ended ticks with the same expression and the same JobResults posted
\* the same alerts and ended the same way.
TicksStandAlone ==
  \A t \in DOMAIN pc :
    /\ (Started(t) /\ GateOpen) => Invoked(t) = DueSet(t)
    /\ Len(alerts[t]) <=
         Cardinality({ i \in Failures(t) : ~Suppressed(invs[t][i].result) })
    /\ (thrown[t].name = "Error") =>
         /\ thrown[t].failed = Cardinality(Failures(t))
         /\ thrown[t].total = Len(invs[t])
    /\ \A u \in DOMAIN pc :
         (Terminal(t) /\ Terminal(u) /\ cron[t] = cron[u] /\ invs[t] = invs[u]) =>
           (AlertCalls(t) = AlertCalls(u) /\ thrown[t] = thrown[u])

\* C22: overlapping ticks share no mutable state and are not coordinated:
\* each invokes its full due set even while the other's call of the same job
\* is in flight, and each tick's alerts and outcome are determined by its
\* own JobResults only, in every interleaving.
C22_OverlappingTicksIsolated ==
  /\ [] TicksStandAlone
  /\ [][StepOfOneTick]_vars

\* Both ticks have shieldClean in flight at once, and one tick has ended in
\* its aggregate error while the other is still waiting.
C22_Witness ==
  \E t, u \in DOMAIN pc :
    /\ t # u
    /\ pc[u] = "joining" /\ cron[u] = "*/15 * * * *"
    /\ \E i \in DOMAIN invs[u] : invs[u][i].job = "shieldClean" /\ invs[u][i].state = "pending"
    /\ cron[t] = "*/15 * * * *" /\ pc[t] = "failed"
    /\ alerts[t] # <<>> /\ alerts[u] = <<>>


----------------------------------------------------------------------------
(* Every outbound call eventually returns *)

\* The transport settles every call in flight, and a task whose awaited
\* promises have all settled is resumed.
CallsReturn ==
  \A t \in TickIds :
    /\ WF_vars(\E i \in DOMAIN invs[t], out \in JobOutcomes : JobSettles(t, i, out))
    /\ WF_vars(JobsJoined(t))
    /\ WF_vars(\E k \in DOMAIN alerts[t], out \in SlackOutcomes : SlackSettles(t, k, out))
    /\ WF_vars(AlertsJoined(t))

SpecCallsReturn == Init /\ [][Next]_vars /\ CallsReturn

----------------------------------------------------------------------------
(* C23 *)

\* The ends a tick can come to: the gate's skip, the return for an unmapped
\* expression, silent success, the aggregate error.
EndedAsSpecified(t) == pc[t] \in {"skipped", "unmapped", "done", "failed"}

\* C23: when every job call and every webhook call eventually returns, a
\* tick that was fired eventually ends in one of its four terminal states;
\* and as there is no timeout in the dispatcher, a tick with a job call
\* still pending has sent no alert and has not ended.
C23_EndsIffCallsReturn ==
  /\ \A t \in TickIds : Started(t) ~> EndedAsSpecified(t)
  /\ [](\A t \in TickIds :
          (\E i \in DOMAIN invs[t] : invs[t][i].state = "pending") =>
            (alerts[t] = <<>> /\ ~Terminal(t)))


----------------------------------------------------------------------------
(* The request handler next to a running tick *)

\* Requests to "/" and to the path of the manual trigger.
SurfaceTargets ==
  { target \in RequestTargets :
      /\ target.path \in {<<"/">>, <<"/", "run">>}
      /\ target.method \in {"GET", "POST"} }

SurfaceCrons == {"0 * * * *", "5 4 * * *"}

\* Any deployment; a request can arrive before, during or after the tick.
InitSurface ==
  /\ env \in Envs
  /\ schedule = DeployedSchedule
  /\ cron = [t \in TickIds |-> ""]
  /\ pc = [t \in TickIds |-> "idle"]
  /\ invs = [t \in TickIds |-> <<>>]
  /\ results = [t \in TickIds |-> <<>>]
  /\ alerts = [t \in TickIds |-> <<>>]
  /\ thrown = [t \in TickIds |-> NoError]
  /\ log = [t \in TickIds |-> {}]
  /\ steps = [t \in TickIds |-> <<>>]
  /\ applied = NotApplied

NextSurface ==
  \/ \E target \in SurfaceTargets : ApplyFetch(target)
  \/ \E t \in TickIds, c \in SurfaceCrons : scheduled(t, c)
  \/ \E t \in TickIds : \E i \in DOMAIN invs[t], out \in JobOutcomes : JobSettles(t, i, out)
  \/ \E t \in TickIds : JobsJoined(t)
  \/ \E t \in TickIds : \E k \in DOMAIN alerts[t], out \in SlackOutcomes : SlackSettles(t, k, out)
  \/ \E t \in TickIds : AlertsJoined(t)

SpecSurface == InitSurface /\ [][NextSurface]_vars

----------------------------------------------------------------------------
(* C24 *)

\* Handling a request leaves the ticks alone: no invocation, no alert, no
\* log line, no change of outcome.
RequestTouchesNoTick ==
  (applied' # applied) =>
    UNCHANGED <<env, schedule, cron, pc, invs, results, alerts, thrown, log, steps>>

\* The answer by path and method, whatever the deployment holds.
AnswerByPathAndMethod ==
  (applied.fn = "fetch") =>
    applied.ret = IF applied.arg.path = <<"/">> /\ applied.arg.method = "GET"
                    THEN [status |-> 200, body |-> <<"ok">>]
                    ELSE [status |-> 404, body |-> <<"not found">>]

\* C24: the request handler causes no job invocation and no alert and reads
\* neither the gate nor a secret: for every path, method and query, POST
\* /run?job=<key>&key=<anything> included, the outbound calls are unchanged
\* and the response follows from path and method alone.
C24_HandlerApartFromTicks ==
  /\ [] AnswerByPathAndMethod
  /\ [][RequestTouchesNoTick]_vars

\* POST /run?job=healthz&key=k was answered 404 while a tick's job call was
\* in flight.
C24_Witness ==
  /\ applied.fn = "fetch"
  /\ applied.arg.path = <<"/", "run">> /\ applied.arg.method = "POST"
  /\ applied.arg.suffix = <<"?", "job=healthz&key=k">>
  /\ applied.ret.status = 404
  /\ \E t \in TickIds : pc[t] = "joining" /\ \E i \in DOMAIN invs[t] : invs[t][i].state = "pending"


----------------------------------------------------------------------------
(* C25 *)

----------------------------------------------------------------------------
(* C26 *)

\* The same deployment with another shared secret.
OtherSecretEnv ==
  [k \in DOMAIN env |-> IF k = "INTERNAL_API_KEY" THEN <<"0ther-s3cret">> ELSE env[k]]

\* The secret occurs in a string.
SecretIn(s) == \E i \in DOMAIN s : \E j \in DOMAIN env["INTERNAL_API_KEY"] :
                 s[i] = env["INTERNAL_API_KEY"][j]

\* A job call apart from its Internal-Authorization header.
ApartFromAuth(call) ==
  [url |-> call.url, method |-> call.method,
   headers |-> { h \in call.headers : h[1] # "Internal-Authorization" }]

\* The alert calls the same results give under the other secret.
AlertCallsUnderOtherSecret(t) ==
  LET as == Alerts(OtherSecretEnv, cron[t], results[t])
  IN  [k \in DOMAIN as |-> as[k].call]

\* C26: the shared secret shows in nothing the dispatcher emits but the
\* Internal-Authorization header of the internal job calls: the same tick
\* with the same responses under another secret issues the same job calls
\* (to the same URLs), posts the same alert payloads and ends the same way,
\* and the secret never reaches the webhook.
C26_SecretOnlyInAuthHeader ==
  \A t \in TickIds :
    /\ \A i \in Called(t) :
         LET inv   == invs[t][i]
             other == runJobStart(inv.platform, inv.job, OtherSecretEnv)
         IN  /\ ApartFromAuth(inv.call) = ApartFromAuth(other.call)
             /\ ~SecretIn(inv.call.url)
             /\ \A h \in inv.call.headers :
                  SecretIn(h[2]) => h[1] = "Internal-Authorization"
             /\ (inv.state = "resolved") =>
                  (~SecretIn(inv.result.url) /\ ~SecretIn(inv.result.baseUrl))
    /\ (alerts[t] # <<>>) => (AlertCalls(t) = AlertCallsUnderOtherSecret(t))
    /\ \A k \in DOMAIN alerts[t] :
         LET call == alerts[t][k].call
         IN  /\ ~SecretIn(call.url)
             /\ \A h \in call.headers : ~SecretIn(h[2])
             /\ ~SecretIn(call.body.text.url)
             /\ ~SecretIn(call.body.text.baseUrl)
             /\ ~SecretIn(call.body.text.statusStr)
             /\ ~SecretIn(call.body.text.bodySnippet)
    /\ (pc[t] \in {"done", "failed"}) =>
         (thrown[t] = Finalize(cron[t], results[t]).thrown)

\* A tick sent the secret with an internal job call, the job failed and the
\* failure was alerted.
C26_Witness ==
  \E t \in TickIds :
    /\ \E i \in Called(t) : \E h \in invs[t][i].call.headers : SecretIn(h[2])
    /\ pc[t] = "failed"
    /\ \E k \in DOMAIN alerts[t] : alerts[t][k].state = "settled"

====
